---- MODULE Spec2Model ----
(***************************************************************************)
(* Model of the useZMKApp hook (connection lifecycle manager and           *)
(* notification dispatcher) of react-zmk-studio.                           *)
(*                                                                         *)
(* Every connect call k creates one AbortController (token k) and at most  *)
(* one RpcConnection (connection k).  JavaScript runs one task at a time,  *)
(* so every action is one synchronous run of the code between two awaits.  *)
(* React applies the queued setState updaters in order; `state` is the     *)
(* result of applying them.  The notification effect runs after a render   *)
(* and is therefore a step of its own (RunEffect).                         *)
(***************************************************************************)
EXTENDS Integers, Sequences, FiniteSets, TLC

\* ---------------------------------------------------------------- bounds
MaxCalls == 2        \* connect calls made in one behaviour
MaxSubs  == 2        \* onNotification calls made in one behaviour

Calls     == 1..MaxCalls
Callbacks == {"f", "g"}
Keys      == {0, 1}

\* ---------------------------------------------------------------- values
NULL   == "null"     \* JavaScript null in a string-valued field
NoConn == 0          \* JavaScript null in a reference-valued field

None    == <<>>      \* null in a list-valued field
Some(x) == <<x>>

DeviceInfos == {"Test Device"}

SubsystemLists ==
  { << [index |-> 0, identifier |-> "a"],
       [index |-> 1, identifier |-> "b"],
       [index |-> 2, identifier |-> "a"] >> }

\* values a rejected promise or a throw can carry
Thrown ==
  { [isError |-> TRUE,  message |-> "Connection failed"],
    [isError |-> FALSE, message |-> "not an Error"] }

\* reading `.signal` of abortControllerRef.current when it is null
NullSignalError ==
  [isError |-> TRUE, message |-> "Cannot read properties of null"]

DeviceInfoError ==
  [isError |-> TRUE, message |-> "Failed to get device information"]

\* how one call_rpc exchange wrapped in withTimeout ends
RpcOutcomes == {"ok", "empty", "reject", "timeout"}

\* the shapes of a notification envelope
Envelopes ==
  { [core |-> TRUE,  keymap |-> FALSE, custom |-> -1],
    [core |-> FALSE, keymap |-> TRUE,  custom |-> -1],
    [core |-> TRUE,  keymap |-> TRUE,  custom |-> -1],
    [core |-> FALSE, keymap |-> FALSE, custom |-> 0],
    [core |-> FALSE, keymap |-> FALSE, custom |-> 1],
    [core |-> FALSE, keymap |-> FALSE, custom |-> -1] }

NoEnvelope == [core |-> FALSE, keymap |-> FALSE, custom |-> -2]

Subscriptions ==
  [type : {"core", "keymap"}, subsystemIndex : {-1}, callback : Callbacks]
    \cup [type : {"custom"}, subsystemIndex : Keys, callback : Callbacks]

Range(s) == { s[i] : i \in DOMAIN s }

\* ---------------------------------------------------------------- state
VARIABLES
  state,                            \* useState<ZMKAppState>
  abortControllerRef,               \* token id, NoConn when null
  aborted,                          \* tokens whose signal is aborted
  notificationCallbacksRef,         \* [core, keymap] insertion-ordered Sets
  customNotificationCallbacksRef,   \* Map subsystemIndex -> Set
  unsubs,                           \* unsubscribe closures handed out
  nsubs,                            \* onNotification calls made
  spent,                            \* closures that were invoked, by call number
  removed,                          \* registrations unsubscribed and not made again
  silenced,                         \* callbacks unsubscribed and not registered since
  pc,                               \* position of every connect call
  connSignal,                       \* token connection k was created with
  effectConn,                       \* connection the mounted effect is for
  loop,                             \* consumption loop of connection k
  delivered,                        \* callbacks the last step invoked, in order
  lastEnv,                          \* envelope the last step read, if any
  payload,                          \* part of the envelope handed to the callbacks
  trace,                            \* what the loop did in the last step, in order
  last,                             \* the step taken last: operation, call, outcome
  quiet,                            \* no onNotification since the last disconnect
  found,                            \* the last findSubsystem call and what it returned
  wt,                               \* a withTimeout call: operation, timer, result
  svc                               \* a ZMKCustomSubsystem and the requests it issued

vars ==
  << state, abortControllerRef, aborted, notificationCallbacksRef,
     customNotificationCallbacksRef, unsubs, nsubs, spent, removed, silenced,
     pc,
     connSignal, effectConn, loop, delivered, lastEnv, payload, trace, last,
     quiet, found, wt, svc >>

refs == << abortControllerRef, aborted >>
registries == << notificationCallbacksRef, customNotificationCallbacksRef >>
subsVars == << unsubs, nsubs, spent, removed, silenced >>
callVars == << pc, connSignal >>
loopVars == << effectConn, loop >>
dispatchVars == << delivered, lastEnv, payload, trace >>
utilVars == << found, wt, svc >>

\* a step that hands no envelope to any callback
NoDispatch ==
  /\ delivered' = <<>>
  /\ lastEnv' = NoEnvelope
  /\ payload' = "none"
  /\ trace' = <<>>

Ev(op, k, outcome) == [op |-> op, call |-> k, outcome |-> outcome]

Pending == {"awaitOpen", "awaitDeviceInfo", "awaitSubsystems"}

\* ---------------------------------------------------------------- useState
InitialState ==
  [connection |-> NoConn, deviceInfo |-> NULL, customSubsystems |-> None,
   isLoading |-> FALSE, error |-> NULL]

EmptyMap == [x \in {} |-> <<>>]

NoLoop == [st |-> "none", aborted |-> FALSE, released |-> 0]

\* findSubsystem has not been called
NoFind == [identifier |-> NULL, result |-> NULL]

\* a promise that has not settled
Unsettled == [kind |-> "pending", value |-> NULL]

\* withTimeout has not been called; clock is the time in milliseconds
NoTimeoutCall ==
  [st |-> "idle", clock |-> 0, op |-> Unsettled, opAt |-> -1, deadline |-> -1,
   message |-> NULL, fired |-> FALSE, result |-> Unsettled, resultAt |-> -1]

\* no ZMKCustomSubsystem has been constructed
NoService ==
  [connection |-> NoConn, subsystemIndex |-> -1, requests |-> <<>>,
   returned |-> Unsettled, calling |-> FALSE]

Init ==
  /\ state = InitialState
  /\ abortControllerRef = NoConn
  /\ aborted = {}
  /\ notificationCallbacksRef = [core |-> <<>>, keymap |-> <<>>]
  /\ customNotificationCallbacksRef = EmptyMap
  /\ unsubs = {}
  /\ nsubs = 0
  /\ spent = {}
  /\ removed = {}
  /\ silenced = {}
  /\ pc = [k \in Calls |-> "idle"]
  /\ connSignal = [k \in Calls |-> NoConn]
  /\ effectConn = NoConn
  /\ loop = [k \in Calls |-> NoLoop]
  /\ delivered = <<>>
  /\ lastEnv = NoEnvelope
  /\ payload = "none"
  /\ trace = <<>>
  /\ last = Ev("init", NoConn, "none")
  /\ quiet = FALSE
  /\ found = NoFind
  /\ wt = NoTimeoutCall
  /\ svc = NoService

\* ---------------------------------------------------------------- connect
Returned == [isError |-> FALSE, message |-> "returned"]

errorMessage(e) ==
  IF e.isError THEN e.message ELSE "Unknown connection error"

\* connect that sets the loading flag and leaves the old error in place
StartStateKeepsError(prev) == [prev EXCEPT !.isLoading = TRUE]

StartState(prev) == [prev EXCEPT !.isLoading = TRUE, !.error = NULL]

\* a catch block that clears the loading flag and drops the message
CatchStateNoError(prev, e) == [prev EXCEPT !.isLoading = FALSE]

\* a catch block that records the message and leaves the loading flag set
CatchStateStillLoading(prev, e) == [prev EXCEPT !.error = errorMessage(e)]

CatchState(prev, e) ==
  [prev EXCEPT !.isLoading = FALSE, !.error = errorMessage(e)]

ConnectedState(k, info, subs) ==
  [connection |-> k, deviceInfo |-> info, customSubsystems |-> subs,
   isLoading |-> FALSE, error |-> NULL]

fetchDeviceInfo(o, info) == IF o = "ok" THEN info ELSE NULL

fetchCustomSubsystems(o, list) == IF o = "ok" THEN Some(list) ELSE None

\* a connect that aborts the AbortController it replaces
ConnectStartAbortsPrevious(k, e) ==
  /\ pc[k] = "idle"
  /\ \A j \in Calls : j < k => pc[j] # "idle"
  /\ abortControllerRef' = k
  /\ aborted' = IF abortControllerRef # NoConn
                THEN aborted \cup {abortControllerRef} ELSE aborted
  /\ IF e = Returned
       THEN /\ state' = StartState(state)
            /\ pc' = [pc EXCEPT ![k] = "awaitOpen"]
            /\ last' = Ev("connect", k, "pending")
       ELSE /\ state' = CatchState(StartState(state), e)
            /\ pc' = [pc EXCEPT ![k] = "done"]
            /\ last' = Ev("connect", k, "failedOpen")
  /\ NoDispatch
  /\ UNCHANGED utilVars
  /\ UNCHANGED << registries, subsVars, connSignal, loopVars, quiet >>

\* connect up to its first await: the loading flag, a fresh AbortController,
\* the call of connectFunction (e is what it throws, Returned for a promise)
ConnectStart(k, e) ==
  /\ pc[k] = "idle"
  /\ \A j \in Calls : j < k => pc[j] # "idle"
  /\ abortControllerRef' = k
  /\ IF e = Returned
       THEN /\ state' = StartState(state)
            /\ pc' = [pc EXCEPT ![k] = "awaitOpen"]
            /\ last' = Ev("connect", k, "pending")
       ELSE /\ state' = CatchState(StartState(state), e)
            /\ pc' = [pc EXCEPT ![k] = "done"]
            /\ last' = Ev("connect", k, "failedOpen")
  /\ NoDispatch
  /\ UNCHANGED utilVars
  /\ UNCHANGED << aborted, registries, subsVars, connSignal, loopVars, quiet >>

\* the promise of connectFunction settles (o), then create_rpc_connection
\* runs (c) with the signal of the controller the ref holds now, then the
\* device-info request is issued
OpenSettles(k, o, c) ==
  /\ pc[k] = "awaitOpen"
  /\ o # Returned => c = Returned
  /\ IF o # Returned
       THEN /\ state' = CatchState(state, o)
            /\ pc' = [pc EXCEPT ![k] = "done"]
            /\ last' = Ev("open", k, "failedOpen")
            /\ UNCHANGED connSignal
       ELSE IF abortControllerRef = NoConn
       THEN /\ state' = CatchState(state, NullSignalError)
            /\ pc' = [pc EXCEPT ![k] = "done"]
            /\ last' = Ev("open", k, "failedCreate")
            /\ UNCHANGED connSignal
       ELSE IF c # Returned
       THEN /\ state' = CatchState(state, c)
            /\ pc' = [pc EXCEPT ![k] = "done"]
            /\ last' = Ev("open", k, "failedCreate")
            /\ UNCHANGED connSignal
       ELSE /\ connSignal' = [connSignal EXCEPT ![k] = abortControllerRef]
            /\ pc' = [pc EXCEPT ![k] = "awaitDeviceInfo"]
            /\ last' = Ev("open", k, "created")
            /\ UNCHANGED state
  /\ NoDispatch
  /\ UNCHANGED utilVars
  /\ UNCHANGED << refs, registries, subsVars, loopVars, quiet >>

\* a connect that lacks the null check on the device info
DeviceInfoSettlesNoCheck(k, o, info) ==
  /\ pc[k] = "awaitDeviceInfo"
  /\ pc' = [pc EXCEPT ![k] = "awaitSubsystems"]
  /\ last' = Ev("deviceInfo", k, o)
  /\ NoDispatch
  /\ UNCHANGED utilVars
  /\ UNCHANGED << state, refs, registries, subsVars, connSignal, loopVars,
                  quiet >>

\* the device-info exchange settles (o); a null result aborts the sequence,
\* otherwise the capability-list request is issued
DeviceInfoSettles(k, o, info) ==
  /\ pc[k] = "awaitDeviceInfo"
  /\ IF fetchDeviceInfo(o, info) = NULL
       THEN /\ state' = CatchState(state, DeviceInfoError)
            /\ pc' = [pc EXCEPT ![k] = "done"]
       ELSE /\ pc' = [pc EXCEPT ![k] = "awaitSubsystems"]
            /\ UNCHANGED state
  /\ last' = Ev("deviceInfo", k, o)
  /\ NoDispatch
  /\ UNCHANGED utilVars
  /\ UNCHANGED << refs, registries, subsVars, connSignal, loopVars, quiet >>

\* a connect in which a failed capability-list fetch reaches the catch block
SubsystemsSettlesFatal(k, o, info, list) ==
  /\ pc[k] = "awaitSubsystems"
  /\ state' = IF o = "ok"
                THEN ConnectedState(k, info, fetchCustomSubsystems(o, list))
                ELSE CatchState(state, Returned)
  /\ pc' = [pc EXCEPT ![k] = "done"]
  /\ last' = Ev("subsystems", k, o)
  /\ NoDispatch
  /\ UNCHANGED utilVars
  /\ UNCHANGED << refs, registries, subsVars, connSignal, loopVars, quiet >>

\* the capability-list exchange settles (o) and the connection is stored
SubsystemsSettles(k, o, info, list) ==
  /\ pc[k] = "awaitSubsystems"
  /\ state' = ConnectedState(k, info, fetchCustomSubsystems(o, list))
  /\ pc' = [pc EXCEPT ![k] = "done"]
  /\ last' = Ev("subsystems", k, o)
  /\ NoDispatch
  /\ UNCHANGED utilVars
  /\ UNCHANGED << refs, registries, subsVars, connSignal, loopVars, quiet >>

\* ---------------------------------------------------------------- disconnect
AbortCurrent(ref, ab) == IF ref # NoConn THEN ab \cup {ref} ELSE ab

ClearedCallbacks == [core |-> <<>>, keymap |-> <<>>]

\* a reset written as an update of the previous state that forgets two fields
DisconnectStateUpdate(prev) ==
  [prev EXCEPT !.connection = NoConn, !.deviceInfo = NULL,
               !.customSubsystems = None]

\* a reset that clears the connection and leaves the device information
DisconnectStateKeepsInfo(prev) ==
  [connection |-> NoConn, deviceInfo |-> prev.deviceInfo,
   customSubsystems |-> None, isLoading |-> FALSE, error |-> NULL]

\* setState with a whole object: nothing of the previous state is kept
DisconnectState(prev) ==
  [connection |-> NoConn, deviceInfo |-> NULL, customSubsystems |-> None,
   isLoading |-> FALSE, error |-> NULL]

\* a disconnect that forgets to clear the custom listener map
disconnectKeepsCustom ==
  /\ aborted' = AbortCurrent(abortControllerRef, aborted)
  /\ abortControllerRef' = NoConn
  /\ notificationCallbacksRef' = ClearedCallbacks
  /\ UNCHANGED customNotificationCallbacksRef
  /\ state' = DisconnectState(state)
  /\ quiet' = TRUE

disconnect ==
  /\ aborted' = AbortCurrent(abortControllerRef, aborted)
  /\ abortControllerRef' = NoConn
  /\ notificationCallbacksRef' = ClearedCallbacks
  /\ customNotificationCallbacksRef' = EmptyMap
  /\ state' = DisconnectState(state)
  /\ quiet' = TRUE

Disconnect ==
  /\ disconnect
  /\ NoDispatch
  /\ UNCHANGED utilVars
  /\ last' = Ev("disconnect", NoConn, "none")
  /\ UNCHANGED << subsVars, callVars, loopVars >>

\* ---------------------------------------------------------------- onNotification
\* Set.prototype.add / delete on an insertion-ordered Set
SetAdd(s, x) == IF x \in Range(s) THEN s ELSE Append(s, x)

SetDelete(s, x) == SelectSeq(s, LAMBDA y : y # x)

MapSet(m, key, v) == [x \in DOMAIN m \cup {key} |-> IF x = key THEN v ELSE m[x]]

MapDelete(m, key) == [x \in DOMAIN m \ {key} |-> m[x]]

MapGet(m, key) == IF key \in DOMAIN m THEN m[key] ELSE <<>>

\* the registries after onNotification(sub)
Subscribed(cbs, custom, sub) ==
  IF sub.type = "custom"
    THEN << cbs,
            MapSet(custom, sub.subsystemIndex,
                   SetAdd(MapGet(custom, sub.subsystemIndex), sub.callback)) >>
    ELSE << [cbs EXCEPT ![sub.type] = SetAdd(@, sub.callback)], custom >>

\* closures of which the keymap one deletes from the core Set
UnsubscribedCoreForKeymap(cbs, custom, sub) ==
  IF sub.type = "custom"
    THEN IF sub.subsystemIndex \in DOMAIN custom
           THEN LET rest == SetDelete(custom[sub.subsystemIndex], sub.callback)
                IN  IF Len(rest) = 0
                      THEN << cbs, MapDelete(custom, sub.subsystemIndex) >>
                      ELSE << cbs, MapSet(custom, sub.subsystemIndex, rest) >>
           ELSE << cbs, custom >>
    ELSE << [cbs EXCEPT !.core = SetDelete(@, sub.callback)], custom >>

\* closures that leave the emptied Set of a subsystemIndex in the Map
UnsubscribedKeepsEmptySet(cbs, custom, sub) ==
  IF sub.type = "custom"
    THEN IF sub.subsystemIndex \in DOMAIN custom
           THEN << cbs, MapSet(custom, sub.subsystemIndex,
                               SetDelete(custom[sub.subsystemIndex],
                                         sub.callback)) >>
           ELSE << cbs, custom >>
    ELSE << [cbs EXCEPT ![sub.type] = SetDelete(@, sub.callback)], custom >>

\* the registries after the unsubscribe closure of onNotification(sub) ran
Unsubscribed(cbs, custom, sub) ==
  IF sub.type = "custom"
    THEN IF sub.subsystemIndex \in DOMAIN custom
           THEN LET rest == SetDelete(custom[sub.subsystemIndex], sub.callback)
                IN  IF Len(rest) = 0
                      THEN << cbs, MapDelete(custom, sub.subsystemIndex) >>
                      ELSE << cbs, MapSet(custom, sub.subsystemIndex, rest) >>
           ELSE << cbs, custom >>
    ELSE << [cbs EXCEPT ![sub.type] = SetDelete(@, sub.callback)], custom >>

\* the closure returned by the n-th onNotification call
Closure(sub, n) ==
  [type |-> sub.type, subsystemIndex |-> sub.subsystemIndex,
   callback |-> sub.callback, call |-> n]

\* what a closure deletes: a callback of one registry entry
Registration(u) ==
  [type |-> u.type, subsystemIndex |-> u.subsystemIndex,
   callback |-> u.callback]

onNotification(sub) ==
  /\ nsubs' = nsubs + 1
  /\ LET r == Subscribed(notificationCallbacksRef,
                         customNotificationCallbacksRef, sub)
     IN  /\ notificationCallbacksRef' = r[1]
         /\ customNotificationCallbacksRef' = r[2]
  /\ unsubs' = unsubs \cup {Closure(sub, nsubs + 1)}
  /\ removed' = removed \ {sub}
  /\ silenced' = silenced \ {sub.callback}
  /\ quiet' = FALSE
  /\ NoDispatch
  /\ UNCHANGED utilVars
  /\ last' = Ev("subscribe", nsubs + 1, "none")
  /\ UNCHANGED << state, refs, spent, callVars, loopVars >>

\* callbacks and subsystem indexes are interchangeable: "g" and index 1
\* are used once "f" and index 0 have been
FirstUse(sub) ==
  /\ sub.callback = "g" => \E u \in unsubs : u.callback = "f"
  /\ sub.subsystemIndex = 1 => \E u \in unsubs : u.subsystemIndex = 0

OnNotification(sub) ==
  /\ nsubs < MaxSubs
  /\ FirstUse(sub)
  /\ onNotification(sub)

\* a caller invokes an unsubscribe closure it holds
Unsubscribe(u) ==
  /\ u \in unsubs
  /\ LET r == Unsubscribed(notificationCallbacksRef,
                           customNotificationCallbacksRef, u)
     IN  /\ notificationCallbacksRef' = r[1]
         /\ customNotificationCallbacksRef' = r[2]
  /\ spent' = spent \cup {u.call}
  /\ removed' = removed \cup {Registration(u)}
  /\ silenced' = silenced \cup {u.callback}
  /\ NoDispatch
  /\ UNCHANGED utilVars
  /\ last' = Ev("unsubscribe", u.call,
                IF u.call \in spent THEN "again" ELSE "first")
  /\ UNCHANGED << state, refs, unsubs, nsubs, callVars, loopVars, quiet >>

\* ---------------------------------------------------------------- notification effect
Done      == [kind |-> "done",  env |-> NoEnvelope]
ReadError == [kind |-> "error", env |-> NoEnvelope]
ReadResults == [kind : {"value"}, env : Envelopes] \cup {Done, ReadError}

\* the if / else-if chain of processNotifications
Classify(env) ==
  IF env.core THEN "core"
  ELSE IF env.keymap THEN "keymap"
  ELSE IF env.custom >= 0 THEN "custom"
  ELSE "none"

dispatchNotification(cbs, type) == cbs[type]

\* a custom dispatch that looks the listeners up under index 0 whatever
\* the notification's subsystemIndex is
dispatchCustomNotificationAnyIndex(custom, subsystemIndex) ==
  MapGet(custom, 0)

dispatchCustomNotification(custom, subsystemIndex) ==
  MapGet(custom, subsystemIndex)

\* a chain of independent ifs: an envelope that carries two categories is
\* handed to the listeners of both
DispatchEveryCategory(cbs, custom, env) ==
  (IF env.core THEN dispatchNotification(cbs, "core") ELSE <<>>)
    \o (IF env.keymap THEN dispatchNotification(cbs, "keymap") ELSE <<>>)
    \o (IF env.custom >= 0
          THEN dispatchCustomNotification(custom, env.custom) ELSE <<>>)

\* the callbacks one envelope is handed to, in the order of the calls
Dispatch(cbs, custom, env) ==
  CASE Classify(env) = "core"   -> dispatchNotification(cbs, "core")
    [] Classify(env) = "keymap" -> dispatchNotification(cbs, "keymap")
    [] Classify(env) = "custom" -> dispatchCustomNotification(custom, env.custom)
    [] OTHER -> <<>>

\* the registry entry an envelope is dispatched to
Target(env) ==
  [type |-> Classify(env),
   subsystemIndex |-> IF Classify(env) = "custom" THEN env.custom ELSE -1]

\* the argument of the callbacks: value.core, value.keymap or
\* value.custom.customNotification
Payload(env) ==
  CASE Classify(env) = "core"   -> "core"
    [] Classify(env) = "keymap" -> "keymap"
    [] Classify(env) = "custom" -> "customNotification"
    [] OTHER -> "none"

\* a callback whose body calls onNotification for callback "g" with the
\* category (and subsystemIndex) of the notification it is handed, and
\* drops the closure it gets back; every other callback only returns
Registrar == "r"

\* a callback whose body calls the unsubscribe closure onNotification
\* returned for the registry entry it is invoked from
SelfRemover == "u"

\* a callback whose body calls disconnect()
Disconnector == "d"

\* a callback whose body throws
Thrower == "t"

\* the registries after the body of callback cb ran
Invoke(cb, cbs, custom, tgt) ==
  IF cb = Disconnector
    THEN << ClearedCallbacks, EmptyMap >>
  ELSE IF cb = Registrar
    THEN Subscribed(cbs, custom,
                    [type |-> tgt.type, subsystemIndex |-> tgt.subsystemIndex,
                     callback |-> "g"])
  ELSE IF cb = SelfRemover
    THEN Unsubscribed(cbs, custom,
                      [type |-> tgt.type, subsystemIndex |-> tgt.subsystemIndex,
                       callback |-> SelfRemover])
    ELSE << cbs, custom >>

\* an iteration that counts the entries it visited and takes the entry at
\* the next position of the Set as it is now
NextIndexByCount(before, after, i) == i + 1

\* the position, in the Set as it is after the i-th callback ran, of the
\* entry Set.prototype.forEach visits next: the iteration follows the
\* entries, so a deletion among the first i moves the position back
NextIndex(before, after, i) ==
  1 + Cardinality({ j \in 1..i : before[j] \in Range(after) })

\* a fan-out about to start: `set` is the Set object forEach is called on,
\* `attached` tells whether the registry still holds that object
StartOfFanOut(env) ==
  [cbs |-> notificationCallbacksRef, custom |-> customNotificationCallbacksRef,
   set |-> Dispatch(notificationCallbacksRef, customNotificationCallbacksRef,
                    env),
   attached |-> TRUE, delivered |-> <<>>]

\* the fan-out after the body of the i-th entry ran. The core and keymap
\* Sets stay in the registry for ever; a custom Set leaves it when its key
\* is deleted or the Map is cleared, and then keeps the entries it has
AfterCallback(it, env, i) ==
  LET cb == it.set[i]
      r  == Invoke(cb, it.cbs, it.custom, Target(env))
      held == it.attached
                /\ (Classify(env) = "custom" => env.custom \in DOMAIN r[2])
  IN  [cbs |-> r[1], custom |-> r[2],
       set |-> IF held THEN Dispatch(r[1], r[2], env)
               ELSE IF it.attached /\ cb = SelfRemover
                 THEN SetDelete(it.set, cb)
               ELSE it.set,
       attached |-> held, delivered |-> Append(it.delivered, cb)]

\* Set.prototype.forEach over the live Set: the next entry is looked up
\* when it is reached, so an entry appended by a callback is visited too
\* and an entry deleted before its turn is not; a callback that throws
\* ends the iteration
RECURSIVE forEach(_, _, _)
forEach(it, env, i) ==
  IF i > Len(it.set)
    THEN it
  ELSE IF it.set[i] = Thrower
    THEN [it EXCEPT !.delivered = Append(@, Thrower)]
  ELSE LET next == AfterCallback(it, env, i)
       IN  forEach(next, env, NextIndex(it.set, next.set, i))

\* an effect whose cleanup releases the reader of the loop it cancels
RunEffectCleanupReleases ==
  /\ effectConn # state.connection
  /\ effectConn' = state.connection
  /\ loop' = [k \in Calls |->
               IF k = state.connection
                 THEN [st |-> "reading", aborted |-> FALSE, released |-> 0]
               ELSE IF k = effectConn
                 THEN [loop[k] EXCEPT !.aborted = TRUE, !.released = @ + 1]
               ELSE loop[k]]
  /\ NoDispatch
  /\ UNCHANGED utilVars
  /\ last' = Ev("effect", NoConn, "none")
  /\ UNCHANGED << state, refs, registries, subsVars, callVars,
                  quiet >>

\* an effect without a dependency list: it re-runs after every render
RunEffectEveryRender ==
  /\ effectConn' = state.connection
  /\ loop' = [k \in Calls |->
               IF k = state.connection
                 THEN [st |-> "reading", aborted |-> FALSE, released |-> 0]
               ELSE IF k = effectConn
                 THEN [loop[k] EXCEPT !.aborted = TRUE]
               ELSE loop[k]]
  /\ NoDispatch
  /\ UNCHANGED utilVars
  /\ last' = Ev("effect", NoConn, "none")
  /\ UNCHANGED << state, refs, registries, subsVars, callVars,
                  quiet >>

\* React re-runs the effect after a render in which state.connection
\* changed: the cleanup of the previous run, then the new run
RunEffect ==
  /\ effectConn # state.connection
  /\ effectConn' = state.connection
  /\ loop' = [k \in Calls |->
               IF k = state.connection
                 THEN [st |-> "reading", aborted |-> FALSE, released |-> 0]
               ELSE IF k = effectConn
                 THEN [loop[k] EXCEPT !.aborted = TRUE]
               ELSE loop[k]]
  /\ NoDispatch
  /\ UNCHANGED utilVars
  /\ last' = Ev("effect", NoConn, "none")
  /\ UNCHANGED << state, refs, registries, subsVars, callVars,
                  quiet >>

\* the loop after its try / catch / finally: the reader is released
Exited(l) == [l EXCEPT !.st = "exited", !.released = @ + 1]

\* a catch block that swallows what a callback throws
CaughtNever(c, threw) == FALSE

\* the catch block of the loop of connection c logs and disconnects: a
\* callback threw and the loop's own controller is not aborted
Caught(c, threw) == threw /\ ~loop[c].aborted

\* a loop that issues its next read before it dispatches the envelope
ReadValuePrefetch(c, env) ==
  LET f == forEach(StartOfFanOut(env), env, 1)
      registered == Registrar \in Range(f.delivered)
      selfRemoved == SelfRemover \in Range(f.delivered)
      disconnected == Disconnector \in Range(f.delivered)
      threw == Thrower \in Range(f.delivered)
      caught == Caught(c, threw)
  IN  /\ delivered' = f.delivered
      /\ notificationCallbacksRef' = (IF caught THEN ClearedCallbacks ELSE f.cbs)
      /\ customNotificationCallbacksRef' = (IF caught THEN EmptyMap ELSE f.custom)
      /\ state' = (IF disconnected \/ caught THEN DisconnectState(state)
                   ELSE state)
      /\ aborted' = (IF disconnected \/ caught
                       THEN AbortCurrent(abortControllerRef, aborted)
                       ELSE aborted)
      /\ abortControllerRef' = (IF disconnected \/ caught THEN NoConn
                                ELSE abortControllerRef)
      /\ lastEnv' = env
      /\ payload' = Payload(env)
      /\ removed' = (IF registered
                       THEN removed \ {[type |-> Target(env).type,
                                        subsystemIndex |-> Target(env).subsystemIndex,
                                        callback |-> "g"]}
                       ELSE removed)
                      \cup (IF selfRemoved
                              THEN {[type |-> Target(env).type,
                                     subsystemIndex |-> Target(env).subsystemIndex,
                                     callback |-> SelfRemover]}
                              ELSE {})
      /\ silenced' = (IF registered THEN silenced \ {"g"} ELSE silenced)
                       \cup (IF selfRemoved THEN {SelfRemover} ELSE {})
      /\ spent' = IF selfRemoved
                    THEN spent \cup
                           { u.call : u \in
                               { v \in unsubs :
                                   /\ v.callback = SelfRemover
                                   /\ v.type = Target(env).type
                                   /\ v.subsystemIndex = Target(env).subsystemIndex } }
                    ELSE spent
      /\ quiet' = (IF caught THEN TRUE
                   ELSE IF disconnected THEN ~registered
                   ELSE quiet /\ ~registered)
      /\ trace' = (IF caught THEN << "log", "disconnect", "release" >>
                   ELSE IF loop[c].aborted \/ threw THEN << "release" >>
                   ELSE << "read" >>)
                     \o (IF Classify(env) = "none" THEN <<>> ELSE << "dispatch" >>)
      /\ loop' = [loop EXCEPT ![c] = IF loop[c].aborted \/ threw
                                       THEN Exited(@) ELSE @]

\* an envelope was read: the if / else-if chain, then the loop condition
ReadValue(c, env) ==
  LET f == forEach(StartOfFanOut(env), env, 1)
      registered == Registrar \in Range(f.delivered)
      selfRemoved == SelfRemover \in Range(f.delivered)
      disconnected == Disconnector \in Range(f.delivered)
      threw == Thrower \in Range(f.delivered)
      caught == Caught(c, threw)
  IN  /\ delivered' = f.delivered
      /\ notificationCallbacksRef' = (IF caught THEN ClearedCallbacks ELSE f.cbs)
      /\ customNotificationCallbacksRef' = (IF caught THEN EmptyMap ELSE f.custom)
      /\ state' = (IF disconnected \/ caught THEN DisconnectState(state)
                   ELSE state)
      /\ aborted' = (IF disconnected \/ caught
                       THEN AbortCurrent(abortControllerRef, aborted)
                       ELSE aborted)
      /\ abortControllerRef' = (IF disconnected \/ caught THEN NoConn
                                ELSE abortControllerRef)
      /\ lastEnv' = env
      /\ payload' = Payload(env)
      /\ removed' = (IF registered
                       THEN removed \ {[type |-> Target(env).type,
                                        subsystemIndex |-> Target(env).subsystemIndex,
                                        callback |-> "g"]}
                       ELSE removed)
                      \cup (IF selfRemoved
                              THEN {[type |-> Target(env).type,
                                     subsystemIndex |-> Target(env).subsystemIndex,
                                     callback |-> SelfRemover]}
                              ELSE {})
      /\ silenced' = (IF registered THEN silenced \ {"g"} ELSE silenced)
                       \cup (IF selfRemoved THEN {SelfRemover} ELSE {})
      /\ spent' = IF selfRemoved
                    THEN spent \cup
                           { u.call : u \in
                               { v \in unsubs :
                                   /\ v.callback = SelfRemover
                                   /\ v.type = Target(env).type
                                   /\ v.subsystemIndex = Target(env).subsystemIndex } }
                    ELSE spent
      /\ quiet' = (IF caught THEN TRUE
                   ELSE IF disconnected THEN ~registered
                   ELSE quiet /\ ~registered)
      /\ trace' = (IF Classify(env) = "none" THEN <<>> ELSE << "dispatch" >>)
                     \o (IF caught THEN << "log", "disconnect", "release" >>
                         ELSE IF loop[c].aborted \/ threw THEN << "release" >>
                         ELSE << "read" >>)
      /\ loop' = [loop EXCEPT ![c] = IF loop[c].aborted \/ threw
                                       THEN Exited(@) ELSE @]

\* a loop that treats the end of the stream as a failure of the stream
ReadDoneDisconnects(c) ==
  /\ loop' = [loop EXCEPT ![c] = Exited(@)]
  /\ IF ~loop[c].aborted
       THEN /\ disconnect
            /\ trace' = << "disconnect", "release" >>
       ELSE /\ trace' = << "release" >>
            /\ UNCHANGED << state, refs, registries, quiet >>
  /\ UNCHANGED << removed, silenced >>

\* the read reported the end of the stream: break, then finally
ReadDone(c) ==
  /\ trace' = << "release" >>
  /\ loop' = [loop EXCEPT ![c] = Exited(@)]
  /\ UNCHANGED << state, refs, registries, removed, silenced, quiet >>

\* a catch block that logs the error and leaves the session as it is
ReadFailsLogOnly(c) ==
  /\ loop' = [loop EXCEPT ![c] = Exited(@)]
  /\ IF ~loop[c].aborted
       THEN /\ trace' = << "log", "release" >>
            /\ UNCHANGED << state, refs, registries, quiet >>
       ELSE /\ trace' = << "release" >>
            /\ UNCHANGED << state, refs, registries, quiet >>
  /\ UNCHANGED << removed, silenced >>

\* a catch block that tears the session down whether or not the loop was
\* cancelled
ReadFailsAlwaysDisconnects(c) ==
  /\ loop' = [loop EXCEPT ![c] = Exited(@)]
  /\ disconnect
  /\ trace' = << "log", "disconnect", "release" >>
  /\ UNCHANGED << removed, silenced >>

\* the read rejected: the catch block, then finally
ReadFails(c) ==
  /\ loop' = [loop EXCEPT ![c] = Exited(@)]
  /\ IF ~loop[c].aborted
       THEN /\ disconnect
            /\ trace' = << "log", "disconnect", "release" >>
       ELSE /\ trace' = << "release" >>
            /\ UNCHANGED << state, refs, registries, quiet >>
  /\ UNCHANGED << removed, silenced >>

\* the label of a read step: a rejection is "error" when connection c is the
\* stored connection and "lateError" when it no longer is
ReadOutcome(c, r) ==
  IF r.kind = "error" /\ state.connection # c THEN "lateError" ELSE r.kind

\* the pending reader.read() of connection c settles with r and the loop
\* runs up to its next await or to its end
ReadSettles(c, r) ==
  /\ loop[c].st = "reading"
  /\ last' = Ev("read", c, ReadOutcome(c, r))
  /\ CASE r.kind = "value" -> ReadValue(c, r.env)
       [] r.kind = "done"  -> ReadDone(c) /\ delivered' = <<>>
                                /\ lastEnv' = NoEnvelope /\ payload' = "none"
                                /\ UNCHANGED spent
       [] OTHER            -> ReadFails(c) /\ delivered' = <<>>
                                /\ lastEnv' = NoEnvelope /\ payload' = "none"
                                /\ UNCHANGED spent
  /\ UNCHANGED << unsubs, nsubs, callVars, effectConn, utilVars >>

\* ---------------------------------------------------------------- derived values
isConnected == state.connection # NoConn

\* ---------------------------------------------------------------- specification
\* connect called by a caller that awaits every connect call before it
\* calls connect again
ConnectStartSequential(k, e) ==
  /\ \A j \in Calls : pc[j] \notin Pending
  /\ ConnectStart(k, e)

\* the connection lifecycle under a caller that does not overlap its
\* connect calls; no listener is registered
Next ==
  \/ \E k \in Calls, e \in Thrown \cup {Returned} : ConnectStartSequential(k, e)
  \/ \E k \in Calls, o \in Thrown \cup {Returned}, c \in Thrown \cup {Returned} :
       OpenSettles(k, o, c)
  \/ \E k \in Calls, o \in RpcOutcomes, info \in DeviceInfos :
       DeviceInfoSettles(k, o, info)
  \/ \E k \in Calls, o \in RpcOutcomes, info \in DeviceInfos,
        list \in SubsystemLists : SubsystemsSettles(k, o, info, list)
  \/ Disconnect
  \/ RunEffect
  \/ \E c \in Calls, r \in ReadResults : ReadSettles(c, r)

Spec == Init /\ [][Next]_vars

\* the connection lifecycle under a caller that may call connect again
\* while earlier connect calls are pending; no listener is registered
NextOverlap ==
  \/ \E k \in Calls, e \in Thrown \cup {Returned} : ConnectStart(k, e)
  \/ \E k \in Calls, o \in Thrown \cup {Returned}, c \in Thrown \cup {Returned} :
       OpenSettles(k, o, c)
  \/ \E k \in Calls, o \in RpcOutcomes, info \in DeviceInfos :
       DeviceInfoSettles(k, o, info)
  \/ \E k \in Calls, o \in RpcOutcomes, info \in DeviceInfos,
        list \in SubsystemLists : SubsystemsSettles(k, o, info, list)
  \/ Disconnect
  \/ RunEffect
  \/ \E c \in Calls, r \in ReadResults : ReadSettles(c, r)

SpecOverlap == Init /\ [][NextOverlap]_vars

\* the session examined by the dispatcher specifications is the one of the
\* first connect call
ConnectStartSession(k, e) ==
  /\ k = 1
  /\ ConnectStartSequential(k, e)

\* subscriptions of a caller one of whose callbacks registers another
\* listener from inside its body
ListenerSubscriptions ==
  Subscriptions
    \cup [type : {"core", "keymap"}, subsystemIndex : {-1}, callback : {Registrar}]
    \cup [type : {"custom"}, subsystemIndex : Keys, callback : {Registrar}]

\* the dispatcher over one session whose handshake succeeds; listeners stay
\* registered until the hook drops them
NextDispatch ==
  \/ \E k \in Calls : ConnectStartSession(k, Returned)
  \/ \E k \in Calls : OpenSettles(k, Returned, Returned)
  \/ \E k \in Calls, info \in DeviceInfos : DeviceInfoSettles(k, "ok", info)
  \/ \E k \in Calls, info \in DeviceInfos, list \in SubsystemLists :
       SubsystemsSettles(k, "ok", info, list)
  \/ Disconnect
  \/ \E sub \in ListenerSubscriptions : OnNotification(sub)
  \/ RunEffect
  \/ \E c \in Calls, r \in ReadResults : ReadSettles(c, r)

SpecDispatch == Init /\ [][NextDispatch]_vars

\* the registries over one session whose handshake succeeds, under a caller
\* that invokes the unsubscribe closures it holds, any number of times
NextUnsubscribe ==
  \/ \E k \in Calls : ConnectStartSession(k, Returned)
  \/ \E k \in Calls : OpenSettles(k, Returned, Returned)
  \/ \E k \in Calls, info \in DeviceInfos : DeviceInfoSettles(k, "ok", info)
  \/ \E k \in Calls, info \in DeviceInfos, list \in SubsystemLists :
       SubsystemsSettles(k, "ok", info, list)
  \/ Disconnect
  \/ \E sub \in Subscriptions : OnNotification(sub)
  \/ \E sub \in Subscriptions, n \in 1..MaxSubs : Unsubscribe(Closure(sub, n))
  \/ RunEffect
  \/ \E c \in Calls, r \in ReadResults : ReadSettles(c, r)

SpecUnsubscribe == Init /\ [][NextUnsubscribe]_vars

\* ---------------------------------------------------------------- findSubsystem
MaxList == 2         \* entries in a fetched capability list

\* identifiers a device reports and a caller asks for
Identifiers == {"a", "A"}
Wanted      == Identifiers \cup {"b"}

SubsystemEntries == [index : 0..MaxList, identifier : Identifiers]

RECURSIVE ListsOfLen(_)
ListsOfLen(n) ==
  IF n = 0 THEN { <<>> }
  ELSE { Append(l, e) : l \in ListsOfLen(n - 1), e \in SubsystemEntries }

\* the capability lists a device may answer with, the empty one included
FetchedLists == UNION { ListsOfLen(n) : n \in 0..MaxList }

\* Array.prototype.find: the first element satisfying the test, None if none
find(subsystems, identifier) ==
  LET hits == { i \in DOMAIN subsystems :
                  subsystems[i].identifier = identifier }
  IN  IF hits = {} THEN None
      ELSE Some(subsystems[CHOOSE i \in hits : \A j \in hits : i <= j])

\* a lookup that keeps the last entry satisfying the test
findSubsystemLast(identifier) ==
  IF state.customSubsystems = None THEN None
  ELSE LET subsystems == state.customSubsystems[1]
           hits == { i \in DOMAIN subsystems :
                       subsystems[i].identifier = identifier }
       IN  IF hits = {} THEN None
           ELSE LET s == subsystems[CHOOSE i \in hits : \A j \in hits : j <= i]
                IN  Some([index |-> s.index, identifier |-> s.identifier])

\* the value findSubsystem returns, None for null
findSubsystem(identifier) ==
  IF state.customSubsystems = None THEN None
  ELSE LET subsystem == find(state.customSubsystems[1], identifier)
       IN  IF subsystem # None
             THEN Some([index |-> subsystem[1].index,
                        identifier |-> subsystem[1].identifier])
             ELSE None

\* a component calls the findSubsystem of the current render
FindSubsystem(identifier) ==
  /\ found' = [identifier |-> identifier, result |-> findSubsystem(identifier)]
  /\ last' = Ev("find", 0, identifier)
  /\ NoDispatch
  /\ UNCHANGED << state, refs, registries, subsVars, callVars, loopVars,
                  quiet, wt, svc >>

\* one session whose handshake may end in any way and whose device answers
\* with any capability list, under a component that looks subsystems up
NextFind ==
  \/ \E k \in Calls, e \in Thrown \cup {Returned} : ConnectStartSession(k, e)
  \/ \E k \in Calls, o \in Thrown \cup {Returned}, c \in Thrown \cup {Returned} :
       OpenSettles(k, o, c)
  \/ \E k \in Calls, o \in RpcOutcomes, info \in DeviceInfos :
       DeviceInfoSettles(k, o, info)
  \/ \E k \in Calls, o \in RpcOutcomes, info \in DeviceInfos,
        list \in FetchedLists : SubsystemsSettles(k, o, info, list)
  \/ Disconnect
  \/ \E identifier \in Wanted : FindSubsystem(identifier)

SpecFind == Init /\ [][NextFind]_vars

\* ---------------------------------------------------------------- withTimeout
MaxTime == 2         \* explicit timeouts and settlement times, in milliseconds

DefaultTimeoutMs    == 5000
DefaultErrorMessage == "Operation timed out"

\* an argument the caller leaves out
OmittedMs      == -1
OmittedMessage == "omitted"

TimeoutArgs == 0..(MaxTime - 1) \cup {OmittedMs}
MessageArgs == {"Too slow", OmittedMessage}

\* the instants at which the clock is observed
TimePoints ==
  0..MaxTime
    \cup { DefaultTimeoutMs - 1, DefaultTimeoutMs, DefaultTimeoutMs + 1 }

\* responses of the RPC layer: the optional chain custom?.call?.payload
Responses ==
  { [custom |-> TRUE,  call |-> TRUE,  payload |-> Some("bytes")],
    [custom |-> TRUE,  call |-> TRUE,  payload |-> None],
    [custom |-> TRUE,  call |-> FALSE, payload |-> None],
    [custom |-> FALSE, call |-> FALSE, payload |-> None] }

Resolved(v) == [kind |-> "resolved", value |-> v]
Rejected(e) == [kind |-> "rejected", value |-> e]

\* the ways a promise settles
Settlements ==
  { Resolved(v) : v \in Responses } \cup { Rejected(e) : e \in Thrown }

\* new Error(errorMessage)
TimeoutError(timeoutMessage) == [isError |-> TRUE, message |-> timeoutMessage]

\* a promise that adopts every settlement, the last one included
SettleLastWins(promise, outcome) == outcome

\* a promise settles once: later resolutions and rejections are ignored
Settle(promise, outcome) ==
  IF promise.kind = "pending" THEN outcome ELSE promise

\* withTimeout up to its return: the timer is armed and the race subscribed;
\* an operation that is settled already wins in the microtasks that follow
withTimeout(promise, timeoutMs, timeoutMessage) ==
  LET ms  == IF timeoutMs = OmittedMs THEN DefaultTimeoutMs ELSE timeoutMs
      msg == IF timeoutMessage = OmittedMessage THEN DefaultErrorMessage
             ELSE timeoutMessage
  IN  [st |-> "called", clock |-> wt.clock, op |-> promise,
       opAt |-> IF promise.kind = "pending" THEN -1 ELSE wt.clock,
       deadline |-> wt.clock + ms, message |-> msg, fired |-> FALSE,
       result |-> Settle(Unsettled, promise),
       resultAt |-> IF promise.kind = "pending" THEN -1 ELSE wt.clock]

\* a callRPC that reports every failure as an error of its own
callRPCReturnWrapped(result) ==
  IF result.kind = "resolved"
    THEN Resolved(IF result.value.custom /\ result.value.call
                    THEN result.value.payload ELSE None)
    ELSE IF result.kind = "rejected"
    THEN Rejected([isError |-> TRUE, message |-> "RPC failed"])
    ELSE result

\* what callRPC settles with once its withTimeout has: the payload of the
\* response or null, or the rejection as it is
callRPCReturn(result) ==
  IF result.kind = "resolved"
    THEN Resolved(IF result.value.custom /\ result.value.call
                    THEN result.value.payload ELSE None)
    ELSE result

\* the promise returned by callRPC follows the race while a call is pending
callRPCPromise(w) == IF svc.calling THEN callRPCReturn(w.result) ELSE svc.returned

WithTimeout(promise, timeoutMs, timeoutMessage) ==
  /\ wt.st = "idle"
  /\ wt' = withTimeout(promise, timeoutMs, timeoutMessage)
  /\ last' = Ev("withTimeout", 0, promise.kind)
  /\ NoDispatch
  /\ UNCHANGED << state, refs, registries, subsVars, callVars, loopVars,
                  quiet, found, svc >>

\* time passes; nothing obliges the timer callback to run on time
Tick(t) ==
  /\ t > wt.clock
  /\ wt' = [wt EXCEPT !.clock = t]
  /\ last' = Ev("tick", 0, "none")
  /\ NoDispatch
  /\ UNCHANGED << state, refs, registries, subsVars, callVars, loopVars,
                  quiet, found, svc >>

\* the wrapped operation settles; the race adopts the outcome if it is first
OpSettles(outcome) ==
  /\ wt.st = "called"
  /\ wt.op.kind = "pending"
  /\ wt' = [wt EXCEPT !.op = outcome, !.opAt = wt.clock,
                      !.result = Settle(wt.result, outcome),
                      !.resultAt = IF wt.result.kind = "pending"
                                     THEN wt.clock ELSE wt.resultAt]
  /\ svc' = [svc EXCEPT !.returned = callRPCPromise(wt'), !.calling = FALSE]
  /\ last' = Ev("settle", 0, outcome.kind)
  /\ NoDispatch
  /\ UNCHANGED << state, refs, registries, subsVars, callVars, loopVars,
                  quiet, found >>

\* the timer callback runs, at the deadline or later, and rejects the
\* timeout promise; the wrapped operation is left alone
TimerFires ==
  /\ wt.st = "called"
  /\ ~wt.fired
  /\ wt.clock >= wt.deadline
  /\ wt' = [wt EXCEPT !.fired = TRUE,
                      !.result = Settle(wt.result,
                                        Rejected(TimeoutError(wt.message))),
                      !.resultAt = IF wt.result.kind = "pending"
                                     THEN wt.clock ELSE wt.resultAt]
  /\ svc' = [svc EXCEPT !.returned = callRPCPromise(wt'), !.calling = FALSE]
  /\ last' = Ev("timer", 0, wt.result.kind)
  /\ NoDispatch
  /\ UNCHANGED << state, refs, registries, subsVars, callVars, loopVars,
                  quiet, found >>

\* ---------------------------------------------------------------- ZMKCustomSubsystem
CallRPCDefaultTimeout == 5000

Payloads == {"request"}

\* new ZMKCustomSubsystem(connection, subsystemIndex)
NewSubsystem(connection, subsystemIndex) ==
  /\ svc.connection = NoConn
  /\ svc' = [svc EXCEPT !.connection = connection,
                        !.subsystemIndex = subsystemIndex]
  /\ last' = Ev("new", connection, "none")
  /\ NoDispatch
  /\ UNCHANGED << state, refs, registries, subsVars, callVars, loopVars,
                  quiet, found, wt >>

\* callRPC up to its await: one call_rpc exchange is started and handed to
\* withTimeout with the timeout of the options or the default
CallRPC(data, timeoutArg) ==
  /\ svc.connection # NoConn
  /\ wt.st = "idle"
  /\ LET timeout == IF timeoutArg = OmittedMs THEN CallRPCDefaultTimeout
                    ELSE timeoutArg
     IN  wt' = withTimeout(Unsettled, timeout, OmittedMessage)
  /\ svc' = [svc EXCEPT
               !.requests = Append(@, [connection |-> svc.connection,
                                       subsystemIndex |-> svc.subsystemIndex,
                                       payload |-> data]),
               !.calling = TRUE]
  /\ last' = Ev("callRPC", svc.connection, data)
  /\ NoDispatch
  /\ UNCHANGED << state, refs, registries, subsVars, callVars, loopVars,
                  quiet, found >>

\* the utilities outside the hook: one withTimeout call, made directly with
\* any promise or by callRPC of a subsystem service, and the passage of time
NextUtility ==
  \/ \E connection \in Calls, subsystemIndex \in Keys :
       NewSubsystem(connection, subsystemIndex)
  \/ \E data \in Payloads, timeoutArg \in TimeoutArgs :
       CallRPC(data, timeoutArg)
  \/ \E promise \in Settlements \cup {Unsettled}, timeoutMs \in TimeoutArgs,
        timeoutMessage \in MessageArgs :
       WithTimeout(promise, timeoutMs, timeoutMessage)
  \/ \E t \in TimePoints : Tick(t)
  \/ \E outcome \in Settlements : OpSettles(outcome)
  \/ TimerFires

SpecUtility == Init /\ [][NextUtility]_vars

\* subscriptions of a caller one of whose callbacks unsubscribes itself
\* from inside its body
SelfRemovingSubscriptions ==
  Subscriptions
    \cup [type : {"core", "keymap"}, subsystemIndex : {-1},
          callback : {SelfRemover}]
    \cup [type : {"custom"}, subsystemIndex : Keys, callback : {SelfRemover}]

\* the dispatcher over one session whose handshake succeeds, with listeners
\* that may remove themselves while a notification is fanned out
NextSelfUnsubscribe ==
  \/ \E k \in Calls : ConnectStartSession(k, Returned)
  \/ \E k \in Calls : OpenSettles(k, Returned, Returned)
  \/ \E k \in Calls, info \in DeviceInfos : DeviceInfoSettles(k, "ok", info)
  \/ \E k \in Calls, info \in DeviceInfos, list \in SubsystemLists :
       SubsystemsSettles(k, "ok", info, list)
  \/ Disconnect
  \/ \E sub \in SelfRemovingSubscriptions : OnNotification(sub)
  \/ RunEffect
  \/ \E c \in Calls, r \in ReadResults : ReadSettles(c, r)

SpecSelfUnsubscribe == Init /\ [][NextSelfUnsubscribe]_vars

\* subscriptions of a caller one of whose callbacks calls disconnect from
\* inside its body
DisconnectingSubscriptions ==
  Subscriptions
    \cup [type : {"core", "keymap"}, subsystemIndex : {-1},
          callback : {Disconnector}]
    \cup [type : {"custom"}, subsystemIndex : Keys, callback : {Disconnector}]

\* the dispatcher over one session whose handshake succeeds, with listeners
\* that may disconnect the session while a notification is fanned out
NextDisconnectInCallback ==
  \/ \E k \in Calls : ConnectStartSession(k, Returned)
  \/ \E k \in Calls : OpenSettles(k, Returned, Returned)
  \/ \E k \in Calls, info \in DeviceInfos : DeviceInfoSettles(k, "ok", info)
  \/ \E k \in Calls, info \in DeviceInfos, list \in SubsystemLists :
       SubsystemsSettles(k, "ok", info, list)
  \/ Disconnect
  \/ \E sub \in DisconnectingSubscriptions : OnNotification(sub)
  \/ RunEffect
  \/ \E c \in Calls, r \in ReadResults : ReadSettles(c, r)

SpecDisconnectInCallback == Init /\ [][NextDisconnectInCallback]_vars

\* subscriptions of a caller one of whose callbacks throws
ThrowingSubscriptions ==
  Subscriptions
    \cup [type : {"core", "keymap"}, subsystemIndex : {-1}, callback : {Thrower}]
    \cup [type : {"custom"}, subsystemIndex : Keys, callback : {Thrower}]

\* the dispatcher over one session whose handshake succeeds, with listeners
\* that may throw while a notification is fanned out
NextThrowingCallback ==
  \/ \E k \in Calls : ConnectStartSession(k, Returned)
  \/ \E k \in Calls : OpenSettles(k, Returned, Returned)
  \/ \E k \in Calls, info \in DeviceInfos : DeviceInfoSettles(k, "ok", info)
  \/ \E k \in Calls, info \in DeviceInfos, list \in SubsystemLists :
       SubsystemsSettles(k, "ok", info, list)
  \/ Disconnect
  \/ \E sub \in ThrowingSubscriptions : OnNotification(sub)
  \/ RunEffect
  \/ \E c \in Calls, r \in ReadResults : ReadSettles(c, r)

SpecThrowingCallback == Init /\ [][NextThrowingCallback]_vars

\* the RPC layer ends the notification stream of a connection whose signal
\* is aborted: the pending read of its loop settles with done or rejects
CancelledReadSettles(c) ==
  /\ connSignal[c] \in aborted
  /\ \E r \in {Done, ReadError} : ReadSettles(c, r)

\* withTimeout settles the two handshake requests within its delay
HandshakeSettles(k) ==
  \/ \E o \in RpcOutcomes, info \in DeviceInfos : DeviceInfoSettles(k, o, info)
  \/ \E o \in RpcOutcomes, info \in DeviceInfos, list \in SubsystemLists :
       SubsystemsSettles(k, o, info, list)

\* overlapping connect calls under a scheduler that runs every pending
\* effect, lets withTimeout settle the handshake requests, and settles the
\* pending read of a connection whose signal is aborted; connectFunction
\* and a stream whose signal is not aborted may stay pending for ever
SpecLive ==
  /\ Init
  /\ [][NextOverlap]_vars
  /\ WF_vars(RunEffect)
  /\ \A k \in Calls : WF_vars(HandshakeSettles(k))
  /\ \A c \in Calls : WF_vars(CancelledReadSettles(c))

\* ---------------------------------------------------------------- properties
\* call k resolves in this step
Resolves(k) == pc[k] # "done" /\ pc'[k] = "done"

\* call k resolves in this step through its catch block
Fails(k) == Resolves(k) /\ last'.op # "subsystems"

DisconnectedDefaults ==
  [connection |-> NoConn, deviceInfo |-> NULL, customSubsystems |-> None,
   isLoading |-> FALSE, error |-> NULL]

RegistriesEmpty ==
  /\ notificationCallbacksRef.core = <<>>
  /\ notificationCallbacksRef.keymap = <<>>
  /\ DOMAIN customNotificationCallbacksRef = {}

\* C1: whenever a connect call fails (open, create_rpc_connection or the
\* device-info fetch), from whatever state, the call resolves and the state
\* then has isLoading = false and a non-null error.
C1_ConnectNeverRaises ==
  [][\A k \in Calls :
       Fails(k) => state'.isLoading = FALSE /\ state'.error # NULL]_vars

\* a connect call failed at create_rpc_connection while a connection was stored
C1_Witness ==
  /\ last.op = "open" /\ last.outcome = "failedCreate"
  /\ pc[last.call] = "done"
  /\ state.connection # NoConn
  /\ state.error # NULL /\ ~state.isLoading

\* C2 (as claimed): when the device-info fetch of a connect call fails, the
\* state at its resolution has error non-null and connection = null, whatever
\* the state was when connect was called.
C2_DeviceInfoFailureDropsConnection ==
  [][\A k \in Calls :
       (Resolves(k) /\ last'.op = "deviceInfo")
         => state'.error # NULL /\ state'.connection = NoConn]_vars

\* C3: when only the capability-list fetch fails, connect resolves with the
\* connection stored, deviceInfo set, customSubsystems = null, isLoading =
\* false and error = null.
C3_SubsystemsFailureNonFatal ==
  [][\A k \in Calls :
       (Resolves(k) /\ last'.op = "subsystems" /\ last'.outcome # "ok")
         => /\ state'.connection = k
            /\ state'.deviceInfo \in DeviceInfos
            /\ state'.customSubsystems = None
            /\ state'.isLoading = FALSE
            /\ state'.error = NULL]_vars

\* a connect call resolved after its capability-list fetch timed out
C3_Witness ==
  /\ last.op = "subsystems" /\ last.outcome = "timeout"
  /\ state.connection = last.call
  /\ state.customSubsystems = None

HandshakeEdges ==
  { << "idle", "awaitOpen" >>, << "idle", "done" >>,
    << "awaitOpen", "awaitDeviceInfo" >>, << "awaitOpen", "done" >>,
    << "awaitDeviceInfo", "awaitSubsystems" >>, << "awaitDeviceInfo", "done" >>,
    << "awaitSubsystems", "done" >> }

\* C4: within one connect call the steps happen in a fixed order: the
\* connection is created (and the device-info fetch issued) in the step in
\* which open() completes, the capability-list fetch is issued only in the
\* step in which the device-info fetch settles with device info, and the
\* connection is stored only in the step in which the capability-list fetch
\* settles.
C4_HandshakeOrder ==
  [][\A k \in Calls :
       /\ pc'[k] # pc[k] => << pc[k], pc'[k] >> \in HandshakeEdges
       /\ connSignal'[k] # connSignal[k]
            => /\ pc[k] = "awaitOpen" /\ pc'[k] = "awaitDeviceInfo"
               /\ last' = Ev("open", k, "created")
       /\ (pc'[k] = "awaitSubsystems" /\ pc[k] # "awaitSubsystems")
            => pc[k] = "awaitDeviceInfo" /\ last' = Ev("deviceInfo", k, "ok")
       /\ (state'.connection = k /\ state.connection # k)
            => /\ pc[k] = "awaitSubsystems"
               /\ last'.op = "subsystems" /\ last'.call = k]_vars

\* the second of two connect calls has just stored its connection
C4_Witness ==
  /\ last.op = "subsystems" /\ last.call = 2
  /\ state.connection = 2
  /\ connSignal[2] # NoConn
  /\ pc[1] = "done"

\* C5: after disconnect the state equals the disconnected defaults, and a
\* second disconnect in a row changes neither the state, nor the registries,
\* nor the token reference (nor any token).
C5_DisconnectIdempotent ==
  [][last'.op = "disconnect"
       => /\ state' = DisconnectedDefaults
          /\ last.op = "disconnect"
               => UNCHANGED << state, registries, refs >>]_vars

\* disconnect has just run on a session whose token it cancelled
C5_Witness ==
  /\ last.op = "disconnect"
  /\ aborted # {}
  /\ state = DisconnectedDefaults
  /\ abortControllerRef = NoConn

\* C6: after disconnect the three registries are empty for as long as
\* onNotification is not called again, and an envelope read in that period
\* is handed to no callback.
C6_DisconnectSilencesListeners ==
  [][/\ quiet' => RegistriesEmpty'
     /\ (quiet /\ last'.op = "read" /\ last'.outcome = "value")
          => delivered' = <<>>]_vars

\* a custom envelope arrived after a disconnect that had followed a
\* subscription for its subsystemIndex
C6_Witness ==
  /\ quiet
  /\ last.op = "read" /\ last.outcome = "value"
  /\ Classify(lastEnv) = "custom"
  /\ \E u \in unsubs : u.type = "custom" /\ u.subsystemIndex = lastEnv.custom
  /\ delivered = <<>>

\* C7 (as claimed): when disconnect is called while a connection is stored,
\* the token that connection was created with is not cancelled before the
\* call and is cancelled after it.
C7_DisconnectAbortsStoredConnection ==
  [][(last'.op = "disconnect" /\ state.connection # NoConn)
       => /\ connSignal[state.connection] \notin aborted
          /\ connSignal[state.connection] \in aborted']_vars

\* C8: isLoading is true only while some connect call is pending.
C8_LoadingOnlyWhileConnecting ==
  state.isLoading => \E k \in Calls : pc[k] \in Pending

\* the loading flag is set while one call is pending and another has resolved
C8_Witness ==
  /\ state.isLoading
  /\ \E k \in Calls : pc[k] = "done"
  /\ \E k \in Calls : pc[k] \in Pending

\* C9: error is null initially, changes to a non-null value only in the step
\* in which a connect call fails, is null after the start of every connect
\* call (unless connectFunction throws in that same synchronous run) and
\* after every disconnect.
C9_ErrorLifecycle ==
  /\ state.error = NULL
  /\ [][/\ (state'.error # NULL /\ state'.error # state.error)
             => \E k \in Calls : Fails(k)
        /\ (last'.op = "connect" /\ last'.outcome = "pending")
             => state'.error = NULL
        /\ last'.op = "disconnect" => state'.error = NULL]_vars

\* a second connect call has started after the first one failed
C9_Witness ==
  /\ last = Ev("connect", 2, "pending")
  /\ pc[1] = "done"
  /\ state.connection = NoConn
  /\ state.error = NULL /\ state.isLoading

Phase(s) ==
  IF s.isLoading THEN "CONNECTING"
  ELSE IF s.connection # NoConn THEN "CONNECTED"
  ELSE "DISCONNECTED"

LifecycleEdges ==
  { << "DISCONNECTED", "CONNECTING" >>, << "CONNECTING", "CONNECTED" >>,
    << "CONNECTING", "DISCONNECTED" >>, << "CONNECTED", "DISCONNECTED" >> }

\* C10 (as claimed): the session only takes the edges DISCONNECTED ->
\* CONNECTING -> CONNECTED | DISCONNECTED and CONNECTED -> DISCONNECTED, error
\* is non-null only in DISCONNECTED, and no state has a connection together
\* with a non-null error or with isLoading.
C10_LifecycleStateMachine ==
  [][/\ Phase(state') # Phase(state)
          => << Phase(state), Phase(state') >> \in LifecycleEdges
     /\ state'.error # NULL => Phase(state') = "DISCONNECTED"
     /\ ~(state'.connection # NoConn /\ state'.error # NULL)
     /\ ~(state'.connection # NoConn /\ state'.isLoading)]_vars

\* C11: in every reachable state isConnected equals (connection is not
\* null), deviceInfo is non-null exactly when connection is non-null, and
\* customSubsystems is non-null only when connection is non-null.
C11_ConnectionFieldsAgree ==
  /\ isConnected = (state.connection # NoConn)
  /\ (state.deviceInfo # NULL) <=> (state.connection # NoConn)
  /\ state.customSubsystems # None => state.connection # NoConn

\* a session is connected whose subsystem listing failed, after an earlier
\* session had been disconnected
C11_Witness ==
  /\ isConnected
  /\ state.deviceInfo # NULL
  /\ state.customSubsystems = None
  /\ aborted # {}

\* the listeners of the registry entry an envelope belongs to, read from
\* the registries themselves
ListenersOf(cbs, custom, env) ==
  IF env.core THEN cbs.core
  ELSE IF env.keymap THEN cbs.keymap
  ELSE IF env.custom \in DOMAIN custom THEN custom[env.custom]
  ELSE <<>>

Occurrences(s, x) == Cardinality({ i \in DOMAIN s : s[i] = x })

C13_NoRetroactiveDelivery ==
  [][(last'.op = "read" /\ last'.outcome = "value")
       => Range(delivered')
            \subseteq Range(ListenersOf(notificationCallbacksRef,
                                       customNotificationCallbacksRef,
                                       lastEnv'))]_vars

C15_UnsubscribedCallbackNotReached ==
  [][(last'.op = "read" /\ last'.outcome = "value")
       => Range(delivered') \cap silenced' = {}]_vars

\* C15 (amended): after an onNotification call followed by a call of the
\* closure it returned, no envelope of that subscription's category and
\* subsystemIndex dispatched afterwards reaches that callback until the
\* callback is registered again for that category and subsystemIndex.
C15_UnsubscribedEntryNotReached ==
  [][(last'.op = "read" /\ last'.outcome = "value")
       => \A cb \in Range(delivered') :
            [type |-> Target(lastEnv').type,
             subsystemIndex |-> Target(lastEnv').subsystemIndex,
             callback |-> cb] \notin removed']_vars

\* a core envelope arrived after "f" had been unsubscribed from the core
\* entry while it stayed registered for keymap: "f" was not invoked
C15_Witness ==
  /\ last.op = "read" /\ last.outcome = "value"
  /\ Classify(lastEnv) = "core"
  /\ [type |-> "core", subsystemIndex |-> -1, callback |-> "f"] \in removed
  /\ notificationCallbacksRef.keymap = << "f" >>
  /\ delivered = <<>>

\* C16 (as claimed): an unsubscribe closure is idempotent and removes only
\* the registration of its own onNotification call: invoked a second or
\* later time, whatever onNotification and disconnect calls happened in
\* between, it changes no registry.
C16_UnsubscribeIdempotent ==
  [][(last'.op = "unsubscribe" /\ last'.outcome = "again")
       => UNCHANGED registries]_vars

\* C17: every subsystemIndex present as a key of the custom registry maps to
\* a non-empty set of listeners: the closure that removes the last listener
\* of an index removes the key, and disconnect removes all keys.
C17_NoEmptyCustomEntry ==
  \A idx \in DOMAIN customNotificationCallbacksRef :
    customNotificationCallbacksRef[idx] # <<>>

\* the only listener of index 0 was unsubscribed: its key is gone and the
\* entry of index 1 is still there
C17_Witness ==
  /\ last.op = "unsubscribe"
  /\ [type |-> "custom", subsystemIndex |-> 0, callback |-> "f"] \in removed
  /\ DOMAIN customNotificationCallbacksRef = {1}

C20_CancelledReadErrorSilent ==
  [][(/\ last'.op = "read"
      /\ last'.outcome \in {"error", "lateError"}
      /\ connSignal[last'.call] \in aborted)
       => trace' = << "release" >>]_vars

\* C21: the reader of every consumption loop is released exactly once, in
\* the step in which the loop exits (end of the stream, cancellation, read
\* error with or without the disconnect), and never while the loop is still
\* reading.
C21_ReaderReleasedOnceAtExit ==
  /\ [](\A c \in Calls :
          loop[c].released = (IF loop[c].st = "exited" THEN 1 ELSE 0))
  /\ [][\A c \in Calls :
          loop'[c].released # loop[c].released
            => /\ loop[c].st = "reading" /\ loop'[c].st = "exited"
               /\ last'.op = "read" /\ last'.call = c
               /\ trace'[Len(trace')] = "release"
               /\ Cardinality({ i \in DOMAIN trace' : trace'[i] = "release" }) = 1]_vars

\* a loop cancelled by the effect cleanup exited on the next envelope it
\* read and released its reader
C21_Witness ==
  /\ last.op = "read" /\ last.outcome = "value"
  /\ loop[last.call].aborted
  /\ loop[last.call].st = "exited"
  /\ loop[last.call].released = 1

\* C22: findSubsystem(identifier) returns {index, identifier} of the first
\* entry, in fetch order, of the stored capability list whose identifier
\* equals the argument exactly, and null when the hook is not connected,
\* when the list is absent or empty, or when no entry matches.
C22_FindSubsystemFirstExactMatch ==
  [][last'.op = "find" =>
       LET id  == found'.identifier
           lst == IF state.customSubsystems = None THEN <<>>
                  ELSE state.customSubsystems[1]
           res == found'.result
       IN  /\ state' = state
           /\ (state.connection = NoConn \/ lst = <<>>
                 \/ \A i \in DOMAIN lst : lst[i].identifier # id)
                => res = None
           /\ (\E i \in DOMAIN lst : lst[i].identifier = id)
                => \E i \in DOMAIN lst :
                     /\ lst[i].identifier = id
                     /\ \A j \in 1..(i - 1) : lst[j].identifier # id
                     /\ res = Some([index |-> lst[i].index,
                                    identifier |-> id])]_vars

\* a lookup of an identifier the list holds twice, under different indexes,
\* next to an entry that differs from it in case only
C22_Witness ==
  /\ last.op = "find"
  /\ state.connection # NoConn
  /\ state.customSubsystems # None
  /\ LET lst == state.customSubsystems[1]
     IN  /\ Len(lst) = 2
         /\ lst[1].identifier = found.identifier
         /\ lst[2].identifier = found.identifier
         /\ lst[1].index # lst[2].index
         /\ lst[1].index # 0
         /\ found.result = Some([index |-> lst[1].index,
                                 identifier |-> found.identifier])

\* C23: whenever the operation wrapped by withTimeout settles before the
\* deadline, an operation already settled at the call included, the result
\* is the operation's own value or its own error and never a timeout failure.
C23_SettledBeforeDeadlineWins ==
  (wt.st = "called" /\ wt.op.kind # "pending" /\ wt.opAt < wt.deadline)
    => /\ wt.result = wt.op
       /\ wt.resultAt = wt.opAt

\* an operation that settled before the deadline, with the timer callback
\* run afterwards
C23_Witness ==
  /\ wt.st = "called"
  /\ wt.op.kind = "rejected"
  /\ wt.opAt > 0
  /\ wt.opAt < wt.deadline
  /\ wt.fired
  /\ wt.result = wt.op

\* C24: whenever the deadline elapses before the wrapped operation settles,
\* the result rejects with a timeout failure carrying the configured or the
\* default message, not earlier than the deadline; the operation is not
\* cancelled and its later settlement leaves the rejected result as it is.
C24_DeadlineBeforeSettlementRejects ==
  /\ []((wt.st = "called" /\ wt.op.kind # "pending" /\ wt.opAt > wt.deadline)
          => /\ wt.result = Rejected(TimeoutError(wt.message))
             /\ wt.resultAt >= wt.deadline)
  /\ [][(last'.op = "timer" /\ wt.result.kind = "pending")
          => /\ wt'.result = Rejected(TimeoutError(wt.message))
             /\ wt.message \in {DefaultErrorMessage, "Too slow"}
             /\ wt'.resultAt >= wt.deadline
             /\ wt'.op = wt.op]_vars
  /\ [][(last'.op = "settle" /\ wt.result.kind # "pending")
          => wt'.result = wt.result]_vars

\* C25: callRPC issues exactly one request/response exchange, addressed to
\* the subsystemIndex bound at construction, and returns the payload of the
\* response, or null when the response carries none; when the exchange
\* fails or times out it rejects with that same error; the bound connection
\* and subsystemIndex are never modified.
C25_CallRPCOneExchangeVerbatim ==
  /\ [](svc.requests # <<>> =>
          /\ Len(svc.requests) = 1
          /\ svc.requests[1].subsystemIndex = svc.subsystemIndex
          /\ svc.requests[1].connection = svc.connection
          /\ wt.result.kind = "pending" => svc.returned.kind = "pending"
          /\ wt.result.kind = "rejected" => svc.returned = wt.result
          /\ wt.result.kind = "resolved" =>
               /\ svc.returned.kind = "resolved"
               /\ svc.returned.value =
                    IF wt.result.value.payload # None
                      THEN wt.result.value.payload ELSE None)
  /\ [][/\ last'.op = "callRPC" =>
             /\ svc'.requests = Append(svc.requests,
                                       [connection |-> svc.connection,
                                        subsystemIndex |-> svc.subsystemIndex,
                                        payload |-> last'.outcome])
        /\ last'.op # "callRPC" => svc'.requests = svc.requests
        /\ svc.connection # NoConn =>
             /\ svc'.connection = svc.connection
             /\ svc'.subsystemIndex = svc.subsystemIndex]_vars

\* a call that timed out with the default timeout and whose exchange then
\* completed
C25_Witness ==
  /\ Len(svc.requests) = 1
  /\ wt.deadline = wt.clock - 1
  /\ wt.op.kind = "resolved"
  /\ wt.opAt = wt.clock
  /\ svc.returned = Rejected(TimeoutError("Operation timed out"))

\* C26: every connect call installs a fresh, un-cancelled token as the
\* current one and does not trigger the token it replaces.
C26_ConnectInstallsFreshToken ==
  [][last'.op = "connect" =>
       /\ pc[last'.call] = "idle"
       /\ abortControllerRef # last'.call
       /\ \A c \in Calls : connSignal[c] # last'.call
       /\ abortControllerRef' = last'.call
       /\ last'.call \notin aborted'
       /\ aborted' = aborted]_vars

\* a connect call that replaced a token which is still not triggered
C26_Witness ==
  /\ last.op = "connect"
  /\ last.call = 2
  /\ abortControllerRef = 2
  /\ pc[1] = "awaitDeviceInfo"
  /\ connSignal[1] = 1
  /\ aborted = {}

\* C27: the connection created by a connect call is bound to the token
\* created at the start of that same call, in every interleaving with the
\* connect and disconnect calls that run while it awaits open().
C27_ConnectionBoundToOwnToken ==
  /\ [](\A k \in Calls : connSignal[k] \in {NoConn, k})
  /\ [][(last'.op = "open" /\ last'.outcome = "created")
          => connSignal'[last'.call] = last'.call]_vars

\* C28: when two connect calls overlap, the state after both have resolved
\* is the state the later-resolving call would have produced on its own: a
\* later-resolving failure leaves connection = null and a later-resolving
\* success leaves error = null, and no field written by the
\* earlier-resolving call survives.
C28_LaterResolvingCallWins ==
  [][\A k, j \in Calls :
       (/\ k < j
        /\ pc[j] = "done"
        /\ Resolves(k)
        /\ \A m \in Calls \ {k, j} : pc[m] = "idle")
         => IF Fails(k)
              THEN /\ state'.connection = NoConn
                   /\ state'.deviceInfo = NULL
                   /\ state'.customSubsystems = None
                   /\ ~state'.isLoading
                   /\ state'.error # NULL
              ELSE /\ state'.connection = k
                   /\ state'.error = NULL
                   /\ ~state'.isLoading]_vars

\* C29: a reader is acquired only for the connection currently stored in
\* the state, at most once for each stored connection, and no two loops ever
\* hold or read the stream of the same connection.
C29_OneReaderPerStoredConnection ==
  /\ [][\A c \in Calls :
          (loop'[c].st = "reading" /\ loop[c].st # "reading")
            => /\ last'.op = "effect"
               /\ state'.connection = c
               /\ loop[c].st = "none"]_vars
  /\ [][(last'.op = "effect" /\ state.connection # NoConn)
          => /\ loop[state.connection].st = "none"
             /\ loop'[state.connection].st = "reading"
             /\ \A c \in Calls \ {state.connection} : loop'[c].st = loop[c].st]_vars

\* the reader of a second connection acquired while the loop of the first
\* one has not exited
C29_Witness ==
  /\ last.op = "effect"
  /\ state.connection = 1
  /\ loop[1].st = "reading"
  /\ loop[2].st = "reading"
  /\ loop[2].aborted

\* C30: when a listener calls its own unsubscribe from inside its callback
\* while a notification is fanned out, every other listener that was
\* registered when the dispatch began (and is not itself removed) is still
\* invoked exactly once, and the listener that removed itself is invoked
\* once and not again for that notification.
C30_SelfUnsubscribeKeepsFanOut ==
  [][(last'.op = "read" /\ last'.outcome = "value")
       => LET before == ListenersOf(notificationCallbacksRef,
                                    customNotificationCallbacksRef, lastEnv')
              after  == ListenersOf(notificationCallbacksRef',
                                    customNotificationCallbacksRef', lastEnv')
          IN  /\ delivered' = before
              /\ \A cb \in Range(before) : Occurrences(delivered', cb) = 1
              /\ after = SelectSeq(before, LAMBDA cb : cb # "u")]_vars

\* a custom notification fanned out to a listener that removed itself and
\* then to the listener registered after it
C30_Witness ==
  /\ last.op = "read"
  /\ last.outcome = "value"
  /\ lastEnv.custom = 0
  /\ delivered = << "u", "f" >>
  /\ MapGet(customNotificationCallbacksRef, 0) = << "f" >>

\* C31: every envelope read from the stream is classified into exactly one
\* of the categories core, keymap and custom and is dispatched to the
\* listeners of that one category only; no envelope is left unclassified
\* and dispatched to none.
C31_EveryEnvelopeDispatchedToOneCategory ==
  [][(last'.op = "read" /\ last'.outcome = "value")
       => /\ Occurrences(trace', "dispatch") = 1
          /\ payload' \in {"core", "keymap", "customNotification"}
          /\ Range(delivered')
               \subseteq Range(ListenersOf(notificationCallbacksRef',
                                           customNotificationCallbacksRef',
                                           lastEnv'))]_vars

\* C31 (amended): an envelope is dispatched to the listeners of at most one
\* category, the first of core, keymap and custom notification it carries;
\* an envelope that carries none of them is dispatched to no listener and
\* the loop goes on to the next read.
C31_EnvelopeDispatchedToAtMostOneCategory ==
  [][(last'.op = "read" /\ last'.outcome = "value")
       => LET carried == lastEnv'.core \/ lastEnv'.keymap
                           \/ lastEnv'.custom >= 0
          IN  /\ Occurrences(trace', "dispatch") = (IF carried THEN 1 ELSE 0)
              /\ ~carried => /\ delivered' = <<>>
                             /\ payload' = "none"
                             /\ state' = state
                             /\ notificationCallbacksRef' = notificationCallbacksRef
                             /\ customNotificationCallbacksRef'
                                  = customNotificationCallbacksRef
              /\ carried => payload' = (IF lastEnv'.core THEN "core"
                                        ELSE IF lastEnv'.keymap THEN "keymap"
                                        ELSE "customNotification")
              /\ Range(delivered')
                   \subseteq Range(ListenersOf(notificationCallbacksRef',
                                               customNotificationCallbacksRef',
                                               lastEnv'))]_vars

\* an envelope that carries a core and a keymap notification reached the
\* core listener and not the listener registered for keymap
C31_Witness ==
  /\ last.op = "read"
  /\ last.outcome = "value"
  /\ lastEnv.core /\ lastEnv.keymap
  /\ notificationCallbacksRef.core = << "f" >>
  /\ notificationCallbacksRef.keymap = << "g" >>
  /\ delivered = << "f" >>

\* C32: in every reachable state in which state.connection is not null the
\* hook holds a current cancellation token, that token is not cancelled,
\* and it is the token the stored connection was created with.
C32_StoredConnectionUnderCurrentToken ==
  state.connection # NoConn
    => /\ abortControllerRef # NoConn
       /\ abortControllerRef \notin aborted
       /\ connSignal[state.connection] = abortControllerRef

\* C33: if disconnect is called while a connect call is pending, at any of
\* its three awaits, that connect call never afterwards stores a connection
\* in the state: when it resolves the connection is still null.
C33_DisconnectedConnectStoresNothing ==
  [][\A k \in Calls :
       (/\ pc[k] \in {"awaitOpen", "awaitDeviceInfo", "awaitSubsystems"}
        /\ k \in aborted
        /\ Resolves(k))
         => /\ state'.connection = NoConn
            /\ state.connection = NoConn]_vars

\* C34: every connection that was stored in the state and no longer is,
\* after a disconnect or after a later connect replaced it, has a cancelled
\* token, and no token bound to the stored connection is discarded without
\* being cancelled.
C34_ReplacedConnectionTokenCancelled ==
  /\ [][(state.connection # NoConn /\ state'.connection # state.connection)
          => connSignal[state.connection] \in aborted']_vars
  /\ [][(/\ state.connection # NoConn
         /\ abortControllerRef = connSignal[state.connection]
         /\ abortControllerRef' # abortControllerRef)
          => abortControllerRef \in aborted']_vars
  /\ [][aborted \subseteq aborted']_vars

\* C38: when the notification stream reports completion while the session
\* is connected, the loop exits and releases its reader without touching
\* the session state or the listener registries: the connection stays
\* stored, disconnect is not invoked, and no new loop is started for that
\* connection.
C38_StreamEndLeavesSession ==
  /\ [][(last'.op = "read" /\ last'.outcome = "done")
          => /\ state' = state
             /\ notificationCallbacksRef' = notificationCallbacksRef
             /\ customNotificationCallbacksRef' = customNotificationCallbacksRef
             /\ abortControllerRef' = abortControllerRef
             /\ aborted' = aborted
             /\ trace' = << "release" >>
             /\ delivered' = <<>>
             /\ loop[last'.call].st = "reading"
             /\ loop'[last'.call].st = "exited"
             /\ loop'[last'.call].released = 1]_vars
  /\ [][\A c \in Calls :
          loop[c].st = "exited"
            => /\ loop'[c].st = "exited"
               /\ loop'[c].released = loop[c].released]_vars

\* the stream of the stored connection ended while a listener was
\* registered
C38_Witness ==
  /\ last.op = "read"
  /\ last.outcome = "done"
  /\ state.connection = last.call
  /\ abortControllerRef = last.call
  /\ aborted = {}
  /\ notificationCallbacksRef.core = << "f" >>
  /\ loop[last.call].st = "exited"

\* C36: once the connection of a consumption loop is no longer the stored
\* connection and the loop has been told to stop, the loop invokes no
\* listener for any envelope its pending or later reads return, the
\* listeners registered after the stop included.
C36_StoppedLoopInvokesNoListener ==
  [][(/\ last'.op = "read"
      /\ loop[last'.call].aborted
      /\ state.connection # last'.call)
       => delivered' = <<>>]_vars

\* C35: once disconnect has returned, no listener registered before it is
\* invoked again unless a later onNotification registers it anew, for the
\* three categories alike, also when disconnect is called from inside a
\* listener while an envelope is fanned out to several listeners.
C35_NoInvocationAfterDisconnect ==
  [][(last'.op = "read" /\ last'.outcome = "value")
       => /\ quiet => delivered' = <<>>
          /\ \A i \in DOMAIN delivered' :
               delivered'[i] = "d" => i = Len(delivered')]_vars

\* C37: if a listener raises while an envelope is dispatched and the loop
\* is not cancelled, the exception is handled like a failure of the stream:
\* it is logged, the listeners after the one that raised are not invoked
\* for that envelope, disconnect is performed, the reader is released, and
\* the loop ends without the exception reaching a caller.
C37_ThrowingListenerTearsDown ==
  [][(/\ last'.op = "read"
      /\ last'.outcome = "value"
      /\ "t" \in Range(delivered')
      /\ ~loop[last'.call].aborted)
       => LET before == ListenersOf(notificationCallbacksRef,
                                    customNotificationCallbacksRef, lastEnv')
          IN  /\ \E p \in DOMAIN before :
                   /\ before[p] = "t"
                   /\ delivered' = SubSeq(before, 1, p)
              /\ trace' = << "dispatch", "log", "disconnect", "release" >>
              /\ state' = DisconnectedDefaults
              /\ RegistriesEmpty'
              /\ abortControllerRef' = NoConn
              /\ abortControllerRef # NoConn => abortControllerRef \in aborted'
              /\ loop'[last'.call].st = "exited"
              /\ loop'[last'.call].released = 1]_vars

\* a keymap notification reached the listener that raised and not the
\* listener registered after it, and the session was torn down
C37_Witness ==
  /\ last.op = "read"
  /\ last.outcome = "value"
  /\ lastEnv.keymap /\ ~lastEnv.core
  /\ delivered = << "t" >>
  /\ \E u \in unsubs : u.type = "keymap" /\ u.callback = "f" /\ u.call = 2
  /\ trace = << "dispatch", "log", "disconnect", "release" >>
  /\ state = DisconnectedDefaults
  /\ aborted = {1}
  /\ loop[1].st = "exited"

\* C39: under weak fairness, and with the RPC layer settling the pending
\* read of a connection once that connection's token is cancelled, every
\* consumption loop that is running when disconnect is called eventually
\* exits and releases its reader, whatever connect calls came before.
C39_LoopsExitAfterDisconnect ==
  \A c \in Calls :
    (last.op = "disconnect" /\ loop[c].st = "reading")
      ~> (loop[c].st = "exited" /\ loop[c].released = 1)

====
